---- MODULE Spec2Model ----
(***************************************************************************)
(* Agent orchestration core of the rural-education assistant backend:      *)
(* BaseAgent.process (mode resolution, per-agent statistics), the eight    *)
(* registered agents' can_handle / process_offline / process_online, and   *)
(* AgentOrchestrator (selection, primary execution, enhancement, fallback, *)
(* orchestrator statistics).                                               *)
(*                                                                         *)
(* Scores are the source's floats times 100 (0.95 -> 95).  A response      *)
(* envelope is a function from field names to values (a Python dict); an   *)
(* exception leaving a function is the one-field record Exc(msg).          *)
(***************************************************************************)
EXTENDS Integers, Sequences, FiniteSets, TLC

\* ---------------------------------------------------------------- bounds
\* process_query / process calls made in one behaviour of Spec and SpecAgent
MaxCalls == 1

\* the longest sequence of calls followed in SpecSeq
MaxSeq == 3

\* ------------------------------------------------------- enums, registry
CRITICAL == 1
HIGH == 2
MEDIUM == 3
LOW == 4

OFFLINE == "offline"
ONLINE == "online"
AUTO == "auto"
AgentMode == {OFFLINE, ONLINE, AUTO}

\* the keys of self.agents, in insertion order
AgentIds ==
  << "offline_knowledge", "study_assistant", "voice_interface",
     "language_support", "assessment", "content_discovery",
     "study_path_planner", "accessibility" >>

Agents == { AgentIds[i] : i \in 1..Len(AgentIds) }

priority(a) ==
  CASE a = "offline_knowledge" -> CRITICAL
    [] a = "study_assistant" -> HIGH
    [] a = "voice_interface" -> HIGH
    [] a = "language_support" -> HIGH
    [] a = "assessment" -> MEDIUM
    [] a = "content_discovery" -> MEDIUM
    [] a = "study_path_planner" -> MEDIUM
    [] a = "accessibility" -> CRITICAL

default_mode(a) ==
  IF a \in {"offline_knowledge", "accessibility"} THEN OFFLINE ELSE AUTO

name(a) ==
  CASE a = "offline_knowledge" -> "Offline Knowledge Agent"
    [] a = "study_assistant" -> "Study Assistant Agent"
    [] a = "voice_interface" -> "Voice Interface Agent"
    [] a = "language_support" -> "Language Support Agent"
    [] a = "assessment" -> "Assessment Agent"
    [] a = "content_discovery" -> "Content Discovery Agent"
    [] a = "study_path_planner" -> "Study Path Planner Agent"
    [] a = "accessibility" -> "Accessibility Agent"

\* agents that receive the tools in AgentOrchestrator.init_tools
tool_users ==
  { "offline_knowledge", "study_assistant", "assessment",
    "content_discovery", "study_path_planner" }

\* ------------------------------------------------------------ dictionaries
None == "None"

Put(d, k, v) == (k :> v) @@ d            \* d[k] = v

Has(d, k) == k \in DOMAIN d              \* k in d

Get(d, k, dflt) == IF k \in DOMAIN d THEN d[k] ELSE dflt   \* d.get(k, dflt)

\* F applied to the value of x, x being evaluated once
With(x, F(_)) == CHOOSE y \in { F(v) : v \in {x} } : TRUE

Exc(msg) == [exception |-> msg]          \* an exception in flight

IsExc(r) == DOMAIN r = {"exception"}

\* ------------------------------------------------------------------ inputs
(* A query is what the keyword tests of the agents see of it: isStr is     *)
(* FALSE for a non-string (None), on which query.lower() raises; every     *)
(* other field is the result of one `any(kw in query_lower ...)` test of   *)
(* the source, subj is StudyAssistantAgent._detect_subject(query).         *)
Query(text, app, edu, study, subj, qmark, assess, content, plan) ==
  [ text |-> text, isStr |-> TRUE, app |-> app, edu |-> edu, study |-> study,
    subj |-> subj, qmark |-> qmark, assess |-> assess, content |-> content,
    plan |-> plan, voice |-> FALSE, trans |-> FALSE, access |-> FALSE ]

QApp == Query("How do I use this app?", TRUE, FALSE, FALSE, None, TRUE, FALSE, FALSE, FALSE)
QEdu == Query("What is photosynthesis?", FALSE, TRUE, TRUE, None, TRUE, FALSE, FALSE, FALSE)
QGibberish == Query("xyzzy unknown gibberish", FALSE, FALSE, FALSE, None, FALSE, FALSE, FALSE, FALSE)
QQuiz == Query("Generate a quiz on mathematics", FALSE, FALSE, FALSE, "Mathematics", FALSE, TRUE, FALSE, FALSE)
QVideo == Query("explain with a video", FALSE, TRUE, TRUE, None, FALSE, FALSE, TRUE, FALSE)
QPlan == Query("explain my study plan", FALSE, TRUE, TRUE, None, FALSE, FALSE, FALSE, TRUE)
QPractice == Query("explain this quiz", FALSE, TRUE, TRUE, None, FALSE, TRUE, FALSE, FALSE)
QAloud == [ Query("read aloud", FALSE, FALSE, FALSE, None, FALSE, FALSE, FALSE, FALSE) EXCEPT !.voice = TRUE ]
QCaptions == [ Query("explain captions", FALSE, TRUE, TRUE, None, FALSE, FALSE, FALSE, FALSE) EXCEPT !.access = TRUE ]
QNone == [ Query("None", FALSE, FALSE, FALSE, None, FALSE, FALSE, FALSE, FALSE) EXCEPT !.isStr = FALSE ]

QueryBank ==
  { QApp, QEdu, QGibberish, QQuiz, QVideo, QPlan, QPractice, QAloud, QCaptions, QNone }

(* A context is a dict, or None.  The keys that the orchestration core and *)
(* the handlers below read are has_internet, subject, operation, language  *)
(* and the three routing flags; a key that is absent is absent from the    *)
(* function.                                                               *)
EmptyDict == << >>

NoContext == [ isNone |-> TRUE, d |-> EmptyDict ]

Ctx(d) == [ isNone |-> FALSE, d |-> d ]

\* the (query, context) pairs process_query is called with: every query
\* with connectivity stated, some with the context omitted or empty, and
\* some with the routing flags set
RequestBank ==
  (QueryBank \X { Ctx([has_internet |-> TRUE]),
                  Ctx([has_internet |-> FALSE, subject |-> "Mathematics"]) })
    \cup ({ QEdu, QGibberish, QNone } \X { NoContext, Ctx(EmptyDict) })
    \cup ({ QEdu, QAloud } \X { Ctx([has_internet |-> TRUE, accessibility_mode |-> TRUE]) })
    \cup ({ QEdu } \X { Ctx([voice_input |-> TRUE, requires_translation |-> TRUE]) })
    \cup ({ QApp, QEdu } \X { Ctx([has_internet |-> FALSE]) })

\* `context or {}` : None and the empty dict both become the empty dict
OrEmpty(ctx) == IF ctx.isNone THEN EmptyDict ELSE ctx.d

\* `if context and ...` : a dict is truthy when it is not empty
Truthy(ctx) == ~ctx.isNone /\ DOMAIN ctx.d # {}

\* elapsed wall-clock times (ms) that datetime.now() differences can take
ElapsedBank == {1, 4}

(* What the collaborators do during one call: the knowledge base finds a   *)
(* match, finds nothing or raises; the Gemini model answers or raises; the *)
(* cache manager and the syllabus parser likewise.  impl is what the       *)
(* handler of an agent that only implements the BaseAgent interface does.  *)
(* rng is the order in which random.sample draws the positions of a        *)
(* three-element population.                                               *)
EnvBank ==
  [ kb |-> {"hit", "miss", "raise"}, gemini |-> {"ok", "raise"},
    cache |-> {"hit", "raise"}, parser |-> {"ok", "empty", "raise"},
    impl |-> {"ok", "fail", "raise"},
    rng |-> { p \in [ 1..3 -> 1..3 ] : \A i, j \in 1..3 : i # j => p[i] # p[j] } ]

DefaultEnv ==
  [ kb |-> "hit", gemini |-> "ok", cache |-> "hit", parser |-> "ok", impl |-> "ok",
    rng |-> << 1, 2, 3 >> ]

\* ------------------------------------------------------------------- state
VARIABLES
  registry,      \* "default": the 8 agents of _initialize_agents;
                 \* "base": agents that keep BaseAgent.can_handle
  config,        \* which API keys the orchestrator was constructed with
  tools,         \* which tools init_tools has distributed
  current_mode,  \* agent id -> AgentMode
  stats,         \* agent id -> BaseAgent.stats
  ostats,        \* AgentOrchestrator.stats
  calls,         \* agent id -> number of process() calls made on it
  ncalls,        \* number of calls made from outside (process_query, process)
  times,         \* for each agent, the sum of the elapsed times of its
                 \* process() calls that returned normally
  threads,       \* the calls in flight on concurrent threads: for each, the
                 \* statistics updates it has yet to make and the value it
                 \* read for the update it is in
  last           \* what the last operation was given and what it returned

vars ==
  << registry, config, tools, current_mode, stats, ostats, calls, ncalls, times,
     threads, last >>

\* -------------------------------------------------------------- can_handle
AttributeError == "'NoneType' object has no attribute 'lower'"

\* what can_handle yields in place of a score when query.lower() raises
\* AttributeError on a query that is not a string
Raised == 0 - 1

\* BaseAgent.can_handle: the default of an agent that does not override it
BaseAgent_can_handle(q, d) == 0

\* a can_handle that misses the app keywords
OfflineKnowledgeAgent_can_handle_without_app_keywords(q, d) ==
  IF ~q.isStr THEN Raised
  ELSE IF q.edu THEN 70
  ELSE 30

OfflineKnowledgeAgent_can_handle(q, d) ==
  IF ~q.isStr THEN Raised
  ELSE IF q.app THEN 90
  ELSE IF q.edu THEN 70
  ELSE 30

\* a can_handle that misses the study keywords
StudyAssistantAgent_can_handle_without_keywords(q, d) ==
  IF ~q.isStr THEN Raised
  ELSE IF q.subj # None THEN 80
  ELSE IF q.qmark THEN 60
  ELSE 40

StudyAssistantAgent_can_handle(q, d) ==
  IF ~q.isStr THEN Raised
  ELSE IF q.study THEN 95
  ELSE IF q.subj # None THEN 80
  ELSE IF q.qmark THEN 60
  ELSE 40

\* a can_handle that adds the keyword score to the context flag's score
VoiceInterfaceAgent_can_handle_additive(q, d) ==
  IF ~q.isStr /\ ~(Get(d, "voice_input", FALSE) \/ Get(d, "requires_voice_output", FALSE))
  THEN Raised
  ELSE (IF Get(d, "voice_input", FALSE) \/ Get(d, "requires_voice_output", FALSE)
        THEN 100 ELSE 0)
       + (IF q.isStr /\ q.voice THEN 90 ELSE 0)

VoiceInterfaceAgent_can_handle(q, d) ==
  IF Get(d, "voice_input", FALSE) \/ Get(d, "requires_voice_output", FALSE) THEN 100
  ELSE IF ~q.isStr THEN Raised
  ELSE IF q.voice THEN 90
  ELSE 0

LanguageSupportAgent_can_handle(q, d) ==
  IF Get(d, "requires_translation", FALSE) THEN 100
  ELSE IF ~q.isStr THEN Raised
  ELSE IF q.trans THEN 95
  ELSE 0

\* a can_handle that scores the assessment keywords only
AssessmentAgent_can_handle_keywords_only(q, d) ==
  IF ~q.isStr THEN Raised
  ELSE IF q.assess THEN 90
  ELSE 0

AssessmentAgent_can_handle(q, d) ==
  IF ~q.isStr THEN Raised
  ELSE IF q.assess THEN 90
  ELSE 20

ContentDiscoveryAgent_can_handle(q, d) ==
  IF ~q.isStr THEN Raised
  ELSE IF q.content THEN 85
  ELSE 30

StudyPathPlannerAgent_can_handle(q, d) ==
  IF ~q.isStr THEN Raised
  ELSE IF q.plan THEN 95
  ELSE 20

AccessibilityAgent_can_handle(q, d) ==
  IF Get(d, "accessibility_mode", FALSE) THEN 100
  ELSE IF ~q.isStr THEN Raised
  ELSE IF q.access THEN 95
  ELSE 0

\* agent.can_handle(query, context), dispatched on the agent's class
can_handle(a, q, d) ==
  IF registry = "base" THEN BaseAgent_can_handle(q, d)
  ELSE CASE a = "offline_knowledge" -> OfflineKnowledgeAgent_can_handle(q, d)
         [] a = "study_assistant" -> StudyAssistantAgent_can_handle(q, d)
         [] a = "voice_interface" -> VoiceInterfaceAgent_can_handle(q, d)
         [] a = "language_support" -> LanguageSupportAgent_can_handle(q, d)
         [] a = "assessment" -> AssessmentAgent_can_handle(q, d)
         [] a = "content_discovery" -> ContentDiscoveryAgent_can_handle(q, d)
         [] a = "study_path_planner" -> StudyPathPlannerAgent_can_handle(q, d)
         [] a = "accessibility" -> AccessibilityAgent_can_handle(q, d)

\* --------------------------------------------------------- _select_agents
\* a sort key that ignores the priority
SortKey_score_only(x) == << 0 - x[2], 0 >>

\* the sort key of an (agent_id, confidence, priority) entry
SortKey(x) == << 0 - x[2], x[3] >>

\* a comparison under which an entry goes in front of its equals
KeyLessOrEqual(k1, k2) == k1[1] < k2[1] \/ (k1[1] = k2[1] /\ k1[2] <= k2[2])

KeyLess(k1, k2) == k1[1] < k2[1] \/ (k1[1] = k2[1] /\ k1[2] < k2[2])

\* list.sort(key=...) is stable: an entry goes after the entries whose key
\* is not greater than its own
RECURSIVE InsertSorted(_, _)
InsertSorted(x, sorted) ==
  IF sorted = << >> THEN << x >>
  ELSE IF KeyLess(SortKey(x), SortKey(Head(sorted)))
       THEN << x >> \o sorted
       ELSE << Head(sorted) >> \o InsertSorted(x, Tail(sorted))

RECURSIVE SortScores(_)
SortScores(l) ==
  IF l = << >> THEN << >>
  ELSE InsertSorted(l[Len(l)], SortScores(SubSeq(l, 1, Len(l) - 1)))

\* the loop over self.agents.items(), from entry i on: whether a can_handle
\* raised, and the entries appended to agent_scores otherwise
RECURSIVE agent_scores(_, _, _)
agent_scores(i, q, d) ==
  IF i > Len(AgentIds) THEN [ raised |-> FALSE, list |-> << >> ]
  ELSE With(can_handle(AgentIds[i], q, d), LAMBDA confidence :
         IF confidence = Raised THEN [ raised |-> TRUE, list |-> << >> ]
         ELSE With(agent_scores(i + 1, q, d), LAMBDA rest :
                IF ~rest.raised /\ confidence > 0
                THEN [ rest EXCEPT !.list =
                         << << AgentIds[i], confidence, priority(AgentIds[i]) >> >> \o @ ]
                ELSE rest))

Top3(l) == SubSeq(l, 1, IF Len(l) < 3 THEN Len(l) ELSE 3)

\* [(agent_id, conf) for agent_id, conf, _ in ...]
RECURSIVE drop_priority(_)
drop_priority(l) ==
  IF l = << >> THEN << >>
  ELSE << << Head(l)[1], Head(l)[2] >> >> \o drop_priority(Tail(l))

\* _select_agents(query, context): whether an exception left it, and the
\* list of (agent_id, confidence) it returned otherwise
_select_agents(q, d) ==
  With(agent_scores(1, q, d), LAMBDA scores :
    IF scores.raised THEN scores
    ELSE [ scores EXCEPT !.list = drop_priority(Top3(SortScores(@))) ])

\* ---------------------------------------------------------------- handlers
(* process_offline / process_online of each agent.  A handler returns the  *)
(* dict the source builds (payload fields that no caller reads are left    *)
(* out) or Exc(msg) when an exception leaves it.                            *)

\* OfflineKnowledgeAgent._handle_app_query
_handle_app_query(q, env) ==
  CASE env.kb = "raise" -> Exc("search_app_faqs failed")
    [] env.kb = "miss" ->
         [ success |-> FALSE,
           message |-> "No matching app help found. Try rephrasing your question." ]
    [] env.kb = "hit" ->
         [ success |-> TRUE, answer |-> "faq answer", question |-> "faq question",
           source |-> "offline_faq", confidence |-> 95 ]

OfflineKnowledgeAgent_process_offline(q, ctx, env) ==
  IF ~tools.knowledge_base
  THEN [ success |-> FALSE, error |-> "Knowledge base not initialized",
         message |-> "Offline knowledge agent requires knowledge base access" ]
  ELSE IF ~q.isStr THEN Exc(AttributeError)
  ELSE IF q.app THEN _handle_app_query(q, env)
  ELSE [ success |-> FALSE, requires_internet |-> TRUE,
         message |-> "Internet connection required for educational questions.",
         query_type |-> "educational" ]

OfflineKnowledgeAgent_process_online(q, ctx, env) ==
  OfflineKnowledgeAgent_process_offline(q, ctx, env)

\* StudyAssistantAgent._provide_offline_guidance
_provide_offline_guidance(q) ==
  [ success |-> FALSE,
    message |-> "Detailed answer not available offline. Connect to internet for AI-powered explanations.",
    subject |-> IF q.subj # None THEN q.subj ELSE "Unknown",
    available_offline |-> FALSE ]

StudyAssistantAgent_process_offline(q, ctx, env) ==
  IF ~tools.knowledge_base
  THEN [ success |-> FALSE, error |-> "Knowledge base not available",
         message |-> "Study assistant requires knowledge base for offline operation" ]
  ELSE IF ~q.isStr THEN Exc(AttributeError)
  ELSE CASE env.kb = "raise" -> Exc("search failed")
         [] env.kb = "hit" ->
              [ success |-> TRUE, answer |-> "cached answer",
                question |-> "cached question",
                subject |-> IF q.subj # None THEN q.subj ELSE "General",
                mode |-> "offline", source |-> "cached_knowledge" ]
         [] env.kb = "miss" -> _provide_offline_guidance(q)

\* a process_online whose except branch lets the Gemini error out
StudyAssistantAgent_process_online_surfacing(q, ctx, env) ==
  IF ~config.gemini_api_key
  THEN StudyAssistantAgent_process_offline(q, ctx, env)
  ELSE IF ~q.isStr THEN Exc(AttributeError)
  ELSE IF env.gemini = "ok" /\ ~(tools.knowledge_base /\ env.kb = "raise")
       THEN [ success |-> TRUE, answer |-> "generated answer", question |-> q.text,
              subject |-> IF q.subj # None THEN q.subj ELSE "General",
              mode |-> "online", source |-> "gemini_api" ]
       ELSE Exc("Gemini API error")

StudyAssistantAgent_process_online(q, ctx, env) ==
  IF ~config.gemini_api_key
  THEN StudyAssistantAgent_process_offline(q, ctx, env)
  ELSE IF ~q.isStr THEN Exc(AttributeError)
  ELSE IF env.gemini = "ok" /\ ~(tools.knowledge_base /\ env.kb = "raise")
       THEN [ success |-> TRUE, answer |-> "generated answer", question |-> q.text,
              subject |-> IF q.subj # None THEN q.subj ELSE "General",
              mode |-> "online", source |-> "gemini_api" ]
       ELSE LET offline_response == StudyAssistantAgent_process_offline(q, ctx, env)
            IN IF IsExc(offline_response) THEN offline_response
               ELSE Put(offline_response, "note",
                        "Online AI unavailable, using cached content")

\* the languages of VoiceInterfaceAgent.supported_languages
supported_languages == {"en", "hi", "pa"}

available_offline == {"en", "hi"}

VoiceInterfaceAgent_process_offline(q, ctx, env) ==
  LET d == OrEmpty(ctx)
      operation == Get(d, "operation", "tts")
      language == Get(d, "language", "en")
  IN CASE operation = "tts" ->
            IF language \notin supported_languages
            THEN [ success |-> FALSE, error |-> "Language not supported offline" ]
            ELSE IF language \notin available_offline
            THEN [ success |-> FALSE, error |-> "TTS requires internet connection" ]
            ELSE [ success |-> TRUE, operation |-> "tts", mode |-> "offline",
                   text |-> q.text, language |-> language ]
       [] operation = "stt" ->
            [ success |-> TRUE, operation |-> "stt", mode |-> "offline",
              language |-> language ]
       [] OTHER -> [ success |-> FALSE, error |-> "Unknown operation" ]

VoiceInterfaceAgent_process_online(q, ctx, env) ==
  LET d == OrEmpty(ctx)
      operation == Get(d, "operation", "tts")
      language == Get(d, "language", "en")
  IN CASE operation = "tts" ->
            IF language \notin supported_languages
            THEN [ success |-> FALSE, error |-> "Language not supported" ]
            ELSE [ success |-> TRUE, operation |-> "tts", mode |-> "online",
                   text |-> q.text, language |-> language ]
       [] operation = "stt" ->
            [ success |-> TRUE, operation |-> "stt", mode |-> "online",
              language |-> language ]
       [] OTHER -> [ success |-> FALSE, error |-> "Unknown operation" ]

\* LanguageSupportAgent._translate_ui_element; no query of the bank is a key
\* of ui_translations
_translate_ui_element(q) ==
  IF ~q.isStr THEN Exc(AttributeError)
  ELSE [ success |-> FALSE, error |-> "UI element not found in offline dictionary" ]

LanguageSupportAgent_process_offline(q, ctx, env) ==
  LET d == OrEmpty(ctx)
  IN IF Get(d, "ui_element", FALSE)
     THEN _translate_ui_element(q)
     ELSE [ success |-> FALSE,
            message |-> "Full translation requires internet connection",
            source_text |-> q.text ]

LanguageSupportAgent_process_online(q, ctx, env) ==
  [ success |-> TRUE, source_text |-> q.text, translated_text |-> "translation",
    mode |-> "online" ]

\* the subjects of AssessmentAgent.quiz_templates
quiz_templates == {"Mathematics", "Science"}

\* self.quiz_templates[subject][difficulty]: the three questions of the
\* bank, each named by its place in the source
quiz_questions(subject, difficulty) ==
  [ i \in 1..3 |-> << subject, difficulty, i >> ]

\* a sample that draws with replacement
random_choices(population, k, rng) ==
  IF k < 0 \/ k > Len(population)
  THEN Exc("Sample larger than population or is negative")
  ELSE [ i \in 1..k |-> population[rng[1]] ]

\* random.sample(population, k): k positions drawn without replacement, in
\* the order rng gives; ValueError when k is negative or above the size
random_sample(population, k, rng) ==
  IF k < 0 \/ k > Len(population)
  THEN Exc("Sample larger than population or is negative")
  ELSE [ i \in 1..k |-> population[rng[i]] ]

\* AssessmentAgent._generate_offline_quiz
_generate_offline_quiz(d, env) ==
  LET subject == Get(d, "subject", "Mathematics")
      asked == Get(d, "difficulty", "medium")
      count == Get(d, "count", 5)
  IN IF subject \notin quiz_templates
     THEN [ success |-> FALSE, error |-> "Subject not available offline" ]
     ELSE LET difficulty == IF asked \in {"easy", "medium", "hard"} THEN asked
                            ELSE "medium"
              questions == quiz_questions(subject, difficulty)
              selected == random_sample(questions,
                            IF count < Len(questions) THEN count ELSE Len(questions),
                            env.rng)
          IN IF IsExc(selected) THEN selected
             ELSE [ success |-> TRUE, subject |-> subject, difficulty |-> difficulty,
                    question_count |-> Len(selected),
                    questions |-> [ i \in 1..Len(selected) |->
                                    [ id |-> i, question |-> selected[i],
                                      type |-> "short_answer" ] ],
                    mode |-> "offline",
                    note |-> "Questions from pre-loaded bank." ]

\* AssessmentAgent._evaluate_answer_basic
_evaluate_answer_basic(d) ==
  IF ~Has(d, "correct_answer")
  THEN [ success |-> FALSE, error |-> "Correct answer required for offline evaluation" ]
  ELSE [ success |-> TRUE, is_correct |-> Get(d, "answer", "") = d["correct_answer"],
         feedback |-> "feedback", mode |-> "offline",
         evaluation_method |-> "exact_match" ]

AssessmentAgent_process_offline(q, ctx, env) ==
  LET d == OrEmpty(ctx)
      operation == Get(d, "operation", "generate_quiz")
  IN CASE operation = "generate_quiz" -> _generate_offline_quiz(d, env)
       [] operation = "evaluate_answer" -> _evaluate_answer_basic(d)
       [] OTHER -> [ success |-> FALSE, error |-> "Operation not supported offline" ]

\* AssessmentAgent._generate_ai_quiz
_generate_ai_quiz(q, ctx, env) ==
  IF ~config.gemini_api_key THEN AssessmentAgent_process_offline(q, ctx, env)
  ELSE IF env.gemini = "ok"
       THEN [ success |-> TRUE, subject |-> Get(OrEmpty(ctx), "subject", "General"),
              topic |-> q.text, difficulty |-> "medium", question_count |-> 5,
              questions_text |-> "generated", mode |-> "online",
              source |-> "ai_generated", note |-> "AI-generated questions for practice" ]
       ELSE AssessmentAgent_process_offline(q, ctx, env)

\* AssessmentAgent._evaluate_answer_ai
_evaluate_answer_ai(d, env) ==
  IF ~config.gemini_api_key THEN _evaluate_answer_basic(d)
  ELSE IF env.gemini = "ok"
       THEN [ success |-> TRUE, evaluation |-> "generated", mode |-> "online",
              source |-> "ai_evaluation" ]
       ELSE _evaluate_answer_basic(d)

AssessmentAgent_process_online(q, ctx, env) ==
  LET d == OrEmpty(ctx)
      operation == Get(d, "operation", "generate_quiz")
  IN CASE operation = "generate_quiz" -> _generate_ai_quiz(q, ctx, env)
       [] operation = "evaluate_answer" -> _evaluate_answer_ai(d, env)
       [] OTHER -> AssessmentAgent_process_offline(q, ctx, env)

ContentDiscoveryAgent_process_offline(q, ctx, env) ==
  LET d == OrEmpty(ctx)
      subject == Get(d, "subject", "Mathematics")
  IN IF tools.cache_manager /\ env.cache = "raise"
     THEN Exc("get_cached_content failed")
     ELSE [ success |-> TRUE, subject |-> subject,
            recommended_channels |-> "channels",
            cached_videos |-> IF tools.cache_manager THEN "videos" ELSE "[]",
            mode |-> "offline",
            note |-> "Showing cached recommendations. Connect to internet for latest videos." ]

ContentDiscoveryAgent_process_online(q, ctx, env) ==
  IF ~config.youtube_api_key
  THEN ContentDiscoveryAgent_process_offline(q, ctx, env)
  ELSE [ success |-> TRUE, query |-> q.text,
         subject |-> Get(OrEmpty(ctx), "subject", None),
         mode |-> "online", instruction |-> "use_youtube_api" ]

\* StudyPathPlannerAgent._create_new_study_path; the parser's
\* generate_optimal_study_path returns a path or raises with the topic lookup
_create_new_study_path(d, env) ==
  [ success |-> TRUE, study_path |-> "path", next_steps |-> "start_learning",
    mode |-> "offline" ]

StudyPathPlannerAgent_process_offline(q, ctx, env) ==
  LET d == OrEmpty(ctx)
  IN IF ~tools.syllabus_parser
     THEN [ success |-> FALSE, error |-> "Syllabus parser not available" ]
     ELSE IF Get(d, "subject", None) = None
     THEN [ success |-> FALSE, error |-> "Subject required for creating study path" ]
     ELSE CASE env.parser = "raise" -> Exc("get_syllabus_topics failed")
            [] env.parser = "empty" ->
                 [ success |-> FALSE, error |-> "No syllabus found",
                   suggestion |-> "Try different subject or connect to internet for more content" ]
            [] env.parser = "ok" -> _create_new_study_path(d, env)

StudyPathPlannerAgent_process_online(q, ctx, env) ==
  StudyPathPlannerAgent_process_offline(q, ctx, env)

\* the keys of AccessibilityAgent.features
features ==
  { "screen_reader", "high_contrast", "large_text", "captions",
    "voice_navigation", "color_blind_mode" }

AccessibilityAgent_process_offline(q, ctx, env) ==
  LET d == OrEmpty(ctx)
      operation == Get(d, "operation", "get_features")
  IN CASE operation = "get_features" ->
            [ success |-> TRUE, features |-> "features",
              recommendation |-> "Enable features based on your needs" ]
       [] operation = "enable_feature" ->
            IF Get(d, "feature", None) \notin features
            THEN [ success |-> FALSE, error |-> "Feature not found" ]
            ELSE [ success |-> TRUE, feature |-> d["feature"], enabled |-> TRUE ]
       [] operation = "format_content" ->
            IF ~q.isStr THEN Exc("'NoneType' object has no attribute 'count'")
            ELSE [ success |-> TRUE, original_content |-> q.text,
                   formatted_content |-> q.text ]
       [] OTHER -> [ success |-> FALSE, error |-> "Unknown operation" ]

AccessibilityAgent_process_online(q, ctx, env) ==
  AccessibilityAgent_process_offline(q, ctx, env)

\* process_offline / process_online of an agent that implements the abstract
\* methods of BaseAgent in some other way: it returns an envelope or raises
BaseAgent_process_impl(q, ctx, env) ==
  CASE env.impl = "ok" -> [ success |-> TRUE, answer |-> "answer" ]
    [] env.impl = "fail" -> [ success |-> FALSE, message |-> "no answer" ]
    [] env.impl = "raise" -> Exc("handler failed")

\* agent.process_offline(query, context), dispatched on the agent's class
process_offline(a, q, ctx, env) ==
  IF registry = "base" THEN BaseAgent_process_impl(q, ctx, env)
  ELSE CASE a = "offline_knowledge" -> OfflineKnowledgeAgent_process_offline(q, ctx, env)
         [] a = "study_assistant" -> StudyAssistantAgent_process_offline(q, ctx, env)
         [] a = "voice_interface" -> VoiceInterfaceAgent_process_offline(q, ctx, env)
         [] a = "language_support" -> LanguageSupportAgent_process_offline(q, ctx, env)
         [] a = "assessment" -> AssessmentAgent_process_offline(q, ctx, env)
         [] a = "content_discovery" -> ContentDiscoveryAgent_process_offline(q, ctx, env)
         [] a = "study_path_planner" -> StudyPathPlannerAgent_process_offline(q, ctx, env)
         [] a = "accessibility" -> AccessibilityAgent_process_offline(q, ctx, env)

\* agent.process_online(query, context), dispatched on the agent's class
process_online(a, q, ctx, env) ==
  IF registry = "base" THEN BaseAgent_process_impl(q, ctx, env)
  ELSE CASE a = "offline_knowledge" -> OfflineKnowledgeAgent_process_online(q, ctx, env)
         [] a = "study_assistant" -> StudyAssistantAgent_process_online(q, ctx, env)
         [] a = "voice_interface" -> VoiceInterfaceAgent_process_online(q, ctx, env)
         [] a = "language_support" -> LanguageSupportAgent_process_online(q, ctx, env)
         [] a = "assessment" -> AssessmentAgent_process_online(q, ctx, env)
         [] a = "content_discovery" -> ContentDiscoveryAgent_process_online(q, ctx, env)
         [] a = "study_path_planner" -> StudyPathPlannerAgent_process_online(q, ctx, env)
         [] a = "accessibility" -> AccessibilityAgent_process_online(q, ctx, env)

\* ------------------------------------------------------- BaseAgent.process
RECURSIVE Gcd(_, _)
Gcd(m, n) == IF n = 0 THEN m ELSE Gcd(n, m % n)

\* the number num/den, in lowest terms (a float of the source, unrounded)
Rat(num, den) ==
  LET g == Gcd(num, den)
  IN IF num = 0 THEN [ num |-> 0, den |-> 1 ] ELSE [ num |-> num \div g, den |-> den \div g ]

\* BaseAgent.__init__: self.stats
InitialStats ==
  [ total_requests |-> 0, offline_requests |-> 0, online_requests |-> 0,
    successful_responses |-> 0, failed_responses |-> 0,
    avg_response_time_ms |-> Rat(0, 1), last_used |-> None ]

_check_connectivity(ctx) ==
  IF Truthy(ctx) /\ Has(ctx.d, "has_internet") THEN ctx.d["has_internet"] ELSE FALSE

\* a running average that keeps the latest elapsed time
_update_avg_response_time_latest(s, new_time_ms) ==
  [ s EXCEPT !.avg_response_time_ms = Rat(new_time_ms, 1) ]

_update_avg_response_time(s, new_time_ms) ==
  LET current_avg == s.avg_response_time_ms
      total == s.successful_responses
  IN IF total = 1
     THEN [ s EXCEPT !.avg_response_time_ms = Rat(new_time_ms, 1) ]
     ELSE [ s EXCEPT !.avg_response_time_ms =
              Rat(current_avg.num * (total - 1) + new_time_ms * current_avg.den,
                  current_avg.den * total) ]

\* a process() that ignores its mode argument
current_only(a, mode) == current_mode[a]

\* `mode if mode else self.current_mode`
override_or_current(a, mode) == IF mode # None THEN mode ELSE current_mode[a]

\* the mode the call runs in; AUTO is resolved by the connectivity check
active_mode(a, ctx, mode) ==
  LET m == override_or_current(a, mode)
  IN IF m = AUTO
     THEN (IF _check_connectivity(ctx) THEN ONLINE ELSE OFFLINE)
     ELSE m

\* an except branch that counts nothing
count_nothing(s) == s

\* self.stats['failed_responses'] += 1, in the except branch
count_failure(s) == [ s EXCEPT !.failed_responses = @ + 1 ]

\* self.stats['successful_responses'] += 1 and the running average
count_success(s, elapsed) ==
  _update_avg_response_time([ s EXCEPT !.successful_responses = @ + 1 ], elapsed)

\* a failure envelope that does not carry the exception's message
failure_envelope_without_message(a, e, active) ==
  [ success |-> FALSE, error |-> "error", agent_id |-> a,
    agent_name |-> name(a), mode |-> active, timestamp |-> "now" ]

\* the dict returned by the except branch of BaseAgent.process
failure_envelope(a, e, active) ==
  [ success |-> FALSE, error |-> e.exception, agent_id |-> a,
    agent_name |-> name(a), mode |-> active, timestamp |-> "now" ]

\* a stamp that keeps the mode the handler put in its dict
stamp_keeping_mode(r, a, active) ==
  Put(Put(Put(Put(r, "agent_id", a), "agent_name", name(a)), "mode",
          Get(r, "mode", active)),
      "timestamp", "now")

\* lines 159-162 of process(): the identity, mode and time stamped on the
\* handler's dict
stamp(r, a, active) ==
  Put(Put(Put(Put(r, "agent_id", a), "agent_name", name(a)), "mode", active),
      "timestamp", "now")

\* lines 150-157 of process(): the handler that the active mode chooses,
\* and what it returned or raised
run_path(a, q, ctx, active, env) ==
  IF active = OFFLINE
  THEN [ path |-> "process_offline", r |-> process_offline(a, q, ctx, env) ]
  ELSE [ path |-> "process_online", r |-> process_online(a, q, ctx, env) ]

\* what process() returns once the handler has returned h.r or raised it;
\* elapsed is the time the clock shows at the end
envelope(a, active, h, elapsed) ==
  IF IsExc(h.r)
  THEN failure_envelope(a, h.r, active)
  ELSE Put(stamp(h.r, a, active), "response_time_ms", elapsed)

\* a process() that counts the mode of a call once its handler has returned
stats_after_counting_on_return(s, active, h, elapsed) ==
  LET s1 == [ s EXCEPT !.total_requests = @ + 1, !.last_used = "now" ]
      s2 == IF active = OFFLINE
            THEN [ s1 EXCEPT !.offline_requests = @ + 1 ]
            ELSE [ s1 EXCEPT !.online_requests = @ + 1 ]
  IN IF IsExc(h.r) THEN count_failure(s1) ELSE count_success(s2, elapsed)

\* self.stats after the call
stats_after(s, active, h, elapsed) ==
  LET s1 == [ s EXCEPT !.total_requests = @ + 1, !.last_used = "now" ]
      s2 == IF active = OFFLINE
            THEN [ s1 EXCEPT !.offline_requests = @ + 1 ]
            ELSE [ s1 EXCEPT !.online_requests = @ + 1 ]
  IN IF IsExc(h.r) THEN count_failure(s2) ELSE count_success(s2, elapsed)

process_result(st, a, ctx, mode, active, h, env, elapsed) ==
  With(envelope(a, active, h, elapsed), LAMBDA response :
    [ stats |-> [ st EXCEPT ![a] = stats_after(@, active, h, elapsed) ],
      response |-> response,
      call |-> [ agent |-> a, context |-> ctx, override |-> mode,
                 current |-> current_mode[a], active |-> active,
                 path |-> h.path, env |-> env, returned |-> h.r,
                 raised |-> IsExc(h.r),
                 exception |-> IF IsExc(h.r) THEN h.r.exception ELSE None,
                 elapsed |-> elapsed,
                 before |-> st[a], response |-> response ] ])

(* BaseAgent.process(query, context, mode) on agent a, from the agent      *)
(* statistics st.  Yields the statistics after the call, the envelope      *)
(* returned and a record of what the call did: the agent, the arguments,   *)
(* the mode resolved, the handler run, what the collaborators did, what    *)
(* the handler returned or raised, the agent's statistics before the call  *)
(* and the envelope returned.                                              *)
process(st, a, q, ctx, mode, env, elapsed) ==
  With(active_mode(a, ctx, mode), LAMBDA active :
    With(run_path(a, q, ctx, active, env),
         LAMBDA h : process_result(st, a, ctx, mode, active, h, env, elapsed)))

\* ------------------------------------------------------- AgentOrchestrator
NoResponse == << >>

\* AgentOrchestrator.__init__: self.stats (agent_usage starts as {})
InitialOrchestratorStats ==
  [ total_queries |-> 0, successful_responses |-> 0, failed_responses |-> 0,
    agent_usage |-> << >>, avg_response_time_ms |-> 0 ]

_update_agent_usage(o, agent_id) ==
  [ o EXCEPT !.agent_usage = Put(@, agent_id, Get(@, agent_id, 0) + 1) ]

\* one round of the loop of _enhance_response, on the entry (agent_id,
\* confidence); acc carries the agent statistics, the enhancements dict and
\* the process() calls made so far
enhance_one(acc, entry, primary_response, q, context, env, elapsed) ==
  LET agent_id == entry[1]
      confidence == entry[2]
  IN IF agent_id = "content_discovery" /\ confidence > 50
     THEN LET video_context ==
                Ctx(Put(context.d, "subject", Get(primary_response, "subject", None)))
          IN With(process(acc.stats, agent_id, q, video_context, None, env, elapsed),
                  LAMBDA v :
                    [ stats |-> v.stats,
                      enhancements |->
                        IF Get(v.response, "success", FALSE)
                        THEN Put(acc.enhancements, "recommended_videos", v.response)
                        ELSE acc.enhancements,
                      invoked |-> Append(acc.invoked, v.call) ])
     ELSE IF agent_id = "study_path_planner" /\ confidence > 50
     THEN [ acc EXCEPT !.enhancements = Put(@, "study_path_available", TRUE) ]
     ELSE IF agent_id = "assessment" /\ confidence > 50
     THEN [ acc EXCEPT !.enhancements = Put(@, "practice_available", TRUE) ]
     ELSE acc

RECURSIVE enhance_loop(_, _, _, _, _, _, _)
enhance_loop(acc, entries, primary_response, q, context, env, elapsed) ==
  IF entries = << >> THEN acc
  ELSE enhance_loop(
         enhance_one(acc, Head(entries), primary_response, q, context, env, elapsed),
         Tail(entries), primary_response, q, context, env, elapsed)

\* the enhancements written over the fields of the primary response
merge_enhancements(primary_response, enhancements) ==
  enhancements @@ primary_response

\* `if enhancements: primary_response['enhancements'] = enhancements`
attach_enhancements(primary_response, enhancements) ==
  IF DOMAIN enhancements # {}
  THEN Put(primary_response, "enhancements", enhancements)
  ELSE primary_response

First2(l) == SubSeq(l, 1, IF Len(l) < 2 THEN Len(l) ELSE 2)

_enhance_response(st, primary_response, secondary_agents, q, context, env, elapsed) ==
  LET acc == enhance_loop(
               [ stats |-> st, enhancements |-> << >>, invoked |-> << >> ],
               First2(secondary_agents), primary_response, q, context, env, elapsed)
  IN [ stats |-> acc.stats, invoked |-> acc.invoked,
       response |-> attach_enhancements(primary_response, acc.enhancements) ]

\* a fallback that returns the agent's envelope as it is
_default_response_untagged(st, q, context, env, elapsed) ==
  With(process(st, "offline_knowledge", q, context, None, env, elapsed), LAMBDA f :
    [ stats |-> f.stats, invoked |-> << f.call >>, response |-> f.response ])

\* AgentOrchestrator._default_response
_default_response(st, q, context, env, elapsed) ==
  With(process(st, "offline_knowledge", q, context, None, env, elapsed), LAMBDA f :
    [ stats |-> f.stats, invoked |-> << f.call >>,
      response |-> Put(f.response, "is_fallback", TRUE) ])

\* process_query without its except branch: the exception reaches the caller
error_propagated(msg) == Exc(msg)

\* the dict returned by the except branch of process_query
error_envelope(msg) ==
  [ success |-> FALSE, error |-> msg,
    message |-> "An error occurred while processing your request",
    timestamp |-> "now" ]

\* a count in which a failure takes one success back
count_response_taking_back(o, response) ==
  IF Get(response, "success", FALSE)
  THEN [ o EXCEPT !.successful_responses = @ + 1 ]
  ELSE [ o EXCEPT !.failed_responses = @ + 1, !.successful_responses = @ - 1 ]

\* the success / failure count of process_query, lines 138-141
count_response(o, response) ==
  IF Get(response, "success", FALSE)
  THEN [ o EXCEPT !.successful_responses = @ + 1 ]
  ELSE [ o EXCEPT !.failed_responses = @ + 1 ]

\* the lowest-ranked entry taken as primary
lowest_of(selected_agents) == selected_agents[Len(selected_agents)][1]

\* `primary_agent_id, confidence = selected_agents[0]`
primary_of(selected_agents) == selected_agents[1][1]

(* AgentOrchestrator.process_query(query, context).  Yields the agent and  *)
(* orchestrator statistics after the call, the list selected, the          *)
(* process() calls made and what the caller receives.                      *)
\* lines 135-148 of process_query, p being what process() gave for the
\* primary agent and e what the enhancement step gave
finish_query(o1, selected_agents, p, e, elapsed, elapsed2) ==
  [ stats |-> e.stats,
    ostats |-> _update_agent_usage(count_response(o1, e.response),
                                   primary_of(selected_agents)),
    selected |-> selected_agents,
    invoked |-> << p.call >> \o e.invoked,
    path |-> "selected",
    result |-> Put(e.response, "total_response_time_ms", elapsed + elapsed2) ]

\* an enhancement step that does not look at the primary's success
maybe_enhance_always(selected_agents, p, q, context, env, elapsed2) ==
  IF Len(selected_agents) > 1
  THEN _enhance_response(p.stats, p.response, Tail(selected_agents), q, context,
                         env, elapsed2)
  ELSE [ stats |-> p.stats, invoked |-> << >>, response |-> p.response ]

\* `if len(selected_agents) > 1 and primary_response.get('success')`
maybe_enhance(selected_agents, p, q, context, env, elapsed2) ==
  IF Len(selected_agents) > 1 /\ Get(p.response, "success", FALSE)
  THEN _enhance_response(p.stats, p.response, Tail(selected_agents), q, context,
                         env, elapsed2)
  ELSE [ stats |-> p.stats, invoked |-> << >>, response |-> p.response ]

process_query(q, ctx, env, elapsed, elapsed2) ==
  LET context == Ctx(OrEmpty(ctx))
      o1 == [ ostats EXCEPT !.total_queries = @ + 1 ]
  IN With(_select_agents(q, context.d), LAMBDA s :
       IF s.raised
       THEN [ stats |-> stats,
              ostats |-> [ o1 EXCEPT !.failed_responses = @ + 1 ],
              selected |-> << >>, invoked |-> << >>, path |-> "except",
              result |-> error_envelope(AttributeError) ]
       ELSE With(s.list, LAMBDA selected_agents :
            IF selected_agents = << >>
            THEN With(_default_response(stats, q, context, env, elapsed), LAMBDA f :
                   [ stats |-> f.stats, ostats |-> o1,
                     selected |-> selected_agents, invoked |-> f.invoked,
                     path |-> "fallback",
                     result |-> f.response ])
            ELSE With(process(stats, primary_of(selected_agents), q, context, None,
                              env, elapsed), LAMBDA p :
                   With(maybe_enhance(selected_agents, p, q, context, env, elapsed2),
                        LAMBDA e : finish_query(o1, selected_agents, p, e,
                                                elapsed, elapsed2)))))

\* a get_stats that reports the rate as a fraction of 1, not a percentage
get_stats_as_fraction ==
  [ total_queries |-> ostats.total_queries,
    successful_responses |-> ostats.successful_responses,
    failed_responses |-> ostats.failed_responses,
    success_rate |->
      IF ostats.total_queries > 0
      THEN Rat(ostats.successful_responses, ostats.total_queries)
      ELSE Rat(0, 1),
    agent_usage |-> ostats.agent_usage,
    total_agents |-> Len(AgentIds),
    agents |-> [ i \in 1..Len(AgentIds) |->
                 [ id |-> AgentIds[i], name |-> name(AgentIds[i]),
                   usage_count |-> Get(ostats.agent_usage, AgentIds[i], 0) ] ] ]

\* AgentOrchestrator.get_stats(); success_rate is the float
\* successful_responses / total_queries * 100, kept as a fraction
get_stats ==
  [ total_queries |-> ostats.total_queries,
    successful_responses |-> ostats.successful_responses,
    failed_responses |-> ostats.failed_responses,
    success_rate |->
      IF ostats.total_queries > 0
      THEN Rat(ostats.successful_responses * 100, ostats.total_queries)
      ELSE Rat(0, 1),
    agent_usage |-> ostats.agent_usage,
    total_agents |-> Len(AgentIds),
    agents |-> [ i \in 1..Len(AgentIds) |->
                 [ id |-> AgentIds[i], name |-> name(AgentIds[i]),
                   usage_count |-> Get(ostats.agent_usage, AgentIds[i], 0) ] ] ]

\* BaseAgent.get_info()
get_info(a) ==
  [ agent_id |-> a, name |-> name(a), priority |-> priority(a),
    current_mode |-> current_mode[a], stats |-> stats[a] ]

\* AgentOrchestrator.list_agents()
list_agents == [ i \in 1..Len(AgentIds) |-> get_info(AgentIds[i]) ]

\* AgentOrchestrator.health_check()
health_check ==
  LET status(t) == IF t THEN "available" ELSE "not_initialized"
  IN [ orchestrator |-> "healthy",
       agents |-> [ a \in Agents |-> "healthy" ],
       tools |-> [ knowledge_base |-> status(tools.knowledge_base),
                   cache_manager |-> status(tools.cache_manager),
                   syllabus_parser |-> status(tools.syllabus_parser) ] ]

\* ------------------------------------------------------------------ actions
ConfigBank ==
  { [ gemini_api_key |-> FALSE, youtube_api_key |-> FALSE ],
    [ gemini_api_key |-> TRUE, youtube_api_key |-> TRUE ] }

NoTools ==
  [ knowledge_base |-> FALSE, cache_manager |-> FALSE, syllabus_parser |-> FALSE ]

\* the arguments init_tools is called with: all three tools, or only the
\* knowledge base
ToolBank ==
  { [ knowledge_base |-> TRUE, cache_manager |-> TRUE, syllabus_parser |-> TRUE ],
    [ knowledge_base |-> TRUE, cache_manager |-> FALSE, syllabus_parser |-> FALSE ] }

\* the threads of the host runtime that serve requests at the same time
Threads == { "t1", "t2" }

\* a thread that has taken no request yet
Idle == [ kind |-> None, path |-> None, todo |-> << >>, reading |-> FALSE, read |-> 0 ]

NoCall ==
  [ op |-> "none", query |-> QGibberish, context |-> NoContext, mode |-> None,
    agent |-> None, path |-> "none", selected |-> << >>, invoked |-> << >>,
    result |-> NoResponse, before |-> InitialOrchestratorStats ]

\* what `last` holds after an operation op that answers no query
Noted(op) == [ NoCall EXCEPT !.op = op, !.before = ostats ]

Init ==
  /\ registry \in {"default", "base"}
  /\ config \in (IF registry = "default" THEN ConfigBank
                 ELSE { [ gemini_api_key |-> FALSE, youtube_api_key |-> FALSE ] })
  /\ tools = NoTools
  /\ current_mode = [ a \in Agents |-> default_mode(a) ]
  /\ stats = [ a \in Agents |-> InitialStats ]
  /\ ostats = InitialOrchestratorStats
  /\ calls = [ a \in Agents |-> 0 ]
  /\ ncalls = 0
  /\ times = [ a \in Agents |-> 0 ]
  /\ threads = [ t \in Threads |-> Idle ]
  /\ last = NoCall

\* the collaborators that are present (a tool distributed by init_tools,
\* a Gemini model built from the API key)
Present ==
  { "impl", "rng" }
    \cup (IF tools.knowledge_base THEN {"kb"} ELSE {})
    \cup (IF tools.cache_manager THEN {"cache"} ELSE {})
    \cup (IF tools.syllabus_parser THEN {"parser"} ELSE {})
    \cup (IF config.gemini_api_key THEN {"gemini"} ELSE {})

\* the collaborators an agent's handlers consult
Uses(a) ==
  Present \cap
    (IF registry = "base" THEN {"impl"}
     ELSE CASE a = "offline_knowledge" -> {"kb"}
            [] a = "study_assistant" -> {"kb", "gemini"}
            [] a = "assessment" -> {"gemini", "rng"}
            [] a = "content_discovery" -> {"cache"}
            [] a = "study_path_planner" -> {"parser"}
            [] OTHER -> {})

\* the behaviours of the collaborators in S, the others left at their default
EnvsFor(S) ==
  LET of(f) == IF f \in S THEN EnvBank[f] ELSE { DefaultEnv[f] }
  IN [ kb : of("kb"), gemini : of("gemini"), cache : of("cache"),
       parser : of("parser"), impl : of("impl"), rng : of("rng") ]

\* the agents whose process() a process_query call on (q, d) may run
MayRun(q, d) ==
  With(_select_agents(q, d), LAMBDA s :
    IF s.raised THEN {}
    ELSE IF s.list = << >> THEN {"offline_knowledge"}
    ELSE { s.list[1][1] } \cup
         { s.list[i][1] :
             i \in { j \in 2..Len(s.list) : s.list[j][1] = "content_discovery" } })

count_calls(c, invoked) ==
  [ a \in Agents |-> c[a] + Cardinality({ i \in 1..Len(invoked) : invoked[i].agent = a }) ]

\* the elapsed times of the calls of invoked that returned normally, added
\* to the sums tm
add_elapsed(tm, invoked) ==
  LET RECURSIVE sum(_, _)
      sum(a, l) ==
        IF l = << >> THEN 0
        ELSE (IF Head(l).agent = a /\ ~Head(l).raised THEN Head(l).elapsed ELSE 0)
               + sum(a, Tail(l))
  IN [ a \in Agents |-> tm[a] + sum(a, invoked) ]

(* orchestrator.process_query(q, ctx), for a (query, context) pair of R,    *)
(* while fewer than max calls were made                                     *)
ProcessQueryOn(R, E, max) ==
  /\ ncalls < max
  /\ \E req \in R :
       LET q == req[1]
           ctx == req[2]
           run == MayRun(q, OrEmpty(ctx))
       IN \E env \in EnvsFor(UNION { Uses(a) : a \in run }),
             elapsed \in E,
             elapsed2 \in (IF Cardinality(run) > 1 THEN E ELSE {1}) :
            \E r \in { process_query(q, ctx, env, elapsed, elapsed2) } :
               /\ stats' = r.stats
               /\ ostats' = r.ostats
               /\ calls' = count_calls(calls, r.invoked)
               /\ times' = add_elapsed(times, r.invoked)
               /\ last' = [ op |-> "process_query", query |-> q, context |-> ctx,
                            mode |-> None, agent |-> None, path |-> r.path,
                            selected |-> r.selected, invoked |-> r.invoked,
                            result |-> r.result,
                            before |-> ostats ]
  /\ ncalls' = ncalls + 1
  /\ UNCHANGED << threads, registry, config, tools, current_mode >>

\* a process() that stores the mode it resolved as the agent's current mode
ProcessOn_storing_mode(A, Q, C, M, E, max) ==
  /\ ncalls < max
  /\ \E a \in A, q \in Q, ctx \in C, mode \in M, elapsed \in E :
       \E env \in EnvsFor(Uses(a)) :
          \E r \in { process(stats, a, q, ctx, mode, env, elapsed) } :
             /\ stats' = r.stats
             /\ current_mode' = [ current_mode EXCEPT ![a] = r.call.active ]
             /\ calls' = count_calls(calls, << r.call >>)
             /\ times' = add_elapsed(times, << r.call >>)
             /\ last' = [ op |-> "process", query |-> q, context |-> ctx,
                          mode |-> mode, agent |-> a, path |-> "process",
                          selected |-> << >>, invoked |-> << r.call >>,
                          result |-> r.response,
                          before |-> ostats ]
  /\ ncalls' = ncalls + 1
  /\ UNCHANGED << threads, registry, config, tools, ostats >>

(* orchestrator.get_agent(a).process(q, ctx, mode), for an agent of A, a   *)
(* query of Q, a context of C and a mode argument of M                     *)
ProcessOn(A, Q, C, M, E, max) ==
  /\ ncalls < max
  /\ \E a \in A, q \in Q, ctx \in C, mode \in M, elapsed \in E :
       \E env \in EnvsFor(Uses(a)) :
          \E r \in { process(stats, a, q, ctx, mode, env, elapsed) } :
             /\ stats' = r.stats
             /\ calls' = count_calls(calls, << r.call >>)
             /\ times' = add_elapsed(times, << r.call >>)
             /\ last' = [ op |-> "process", query |-> q, context |-> ctx,
                          mode |-> mode, agent |-> a, path |-> "process",
                          selected |-> << >>, invoked |-> << r.call >>,
                          result |-> r.response,
                          before |-> ostats ]
  /\ ncalls' = ncalls + 1
  /\ UNCHANGED << threads, registry, config, tools, current_mode, ostats >>

\* the agents that set_mode(mode, agent_ids) switches
target_agents(agent_ids) ==
  IF agent_ids = None \/ agent_ids = << >>
  THEN Agents
  ELSE { agent_ids[i] : i \in 1..Len(agent_ids) } \cap Agents

\* orchestrator.set_mode(mode, agent_ids), for an agent_ids argument of I
SetModeOn(I) ==
  /\ \E mode \in AgentMode, agent_ids \in I :
       /\ current_mode' = [ a \in Agents |->
                              IF a \in target_agents(agent_ids) THEN mode
                              ELSE current_mode[a] ]
       /\ last' = [ Noted("set_mode") EXCEPT
                      !.mode = mode,
                      !.result = [ omitted |-> agent_ids = None,
                                   agent_ids |-> IF agent_ids = None THEN << >>
                                                 ELSE agent_ids ] ]
  /\ UNCHANGED << threads, times, registry, config, tools, stats, ostats, calls, ncalls >>

\* orchestrator.init_tools(knowledge_base, cache_manager, syllabus_parser)
InitTools ==
  /\ \E t \in ToolBank : tools' = t
  /\ last' = Noted("init_tools")
  /\ UNCHANGED << threads, times, registry, config, current_mode, stats, ostats, calls, ncalls >>

\* the (query, context) pairs can_handle and _select_agents are called with
\* directly: every query, with no context and with every routing flag set
ScoreBank ==
  QueryBank \X { NoContext,
                 Ctx([voice_input |-> TRUE, requires_translation |-> TRUE,
                      accessibility_mode |-> TRUE]) }

\* orchestrator.get_agent(a).can_handle(q, ctx): what it returned or that it
\* raised, and the caller's context as the call left it
CanHandle ==
  /\ \E a \in Agents, req \in ScoreBank :
       \E c \in { can_handle(a, req[1], OrEmpty(req[2])) } :
          last' = [ Noted("can_handle") EXCEPT
                      !.agent = a, !.query = req[1], !.context = req[2],
                      !.result = [ raised |-> c = Raised, confidence |-> c,
                                   context |-> req[2] ] ]
  /\ UNCHANGED << threads, times, registry, config, tools, current_mode, stats, ostats, calls, ncalls >>

\* a _select_agents that counts the query it ranks
SelectAgentsCounted ==
  /\ \E req \in ScoreBank :
       \E sel \in { _select_agents(req[1], OrEmpty(req[2])) } :
          last' = [ Noted("_select_agents") EXCEPT
                      !.query = req[1], !.context = req[2], !.selected = sel.list,
                      !.result = [ raised |-> sel.raised, context |-> req[2] ] ]
  /\ ostats' = [ ostats EXCEPT !.total_queries = @ + 1 ]
  /\ UNCHANGED << threads, times, registry, config, tools, current_mode, stats, calls, ncalls >>

\* orchestrator._select_agents(q, ctx): the list it returned or that it
\* raised, and the caller's context as the call left it
SelectAgents ==
  /\ \E req \in ScoreBank :
       \E sel \in { _select_agents(req[1], OrEmpty(req[2])) } :
          last' = [ Noted("_select_agents") EXCEPT
                      !.query = req[1], !.context = req[2], !.selected = sel.list,
                      !.result = [ raised |-> sel.raised, context |-> req[2] ] ]
  /\ UNCHANGED << threads, times, registry, config, tools, current_mode, stats, ostats, calls, ncalls >>

\* orchestrator.get_stats()
GetStats ==
  /\ last' = [ Noted("get_stats") EXCEPT !.result = get_stats ]
  /\ UNCHANGED << threads, times, registry, config, tools, current_mode, stats, ostats, calls, ncalls >>

\* orchestrator.list_agents()
ListAgents ==
  /\ last' = [ Noted("list_agents") EXCEPT !.result = list_agents ]
  /\ UNCHANGED << threads, times, registry, config, tools, current_mode, stats, ostats, calls, ncalls >>

\* orchestrator.health_check()
HealthCheck ==
  /\ last' = [ Noted("health_check") EXCEPT !.result = health_check ]
  /\ UNCHANGED << threads, times, registry, config, tools, current_mode, stats, ostats, calls, ncalls >>

\* ------------------------------------------------- calls on concurrent threads
(* The statistics updates of one BaseAgent.process call, in the order of   *)
(* lines 140-168, c being the record of the call: `+= 1` on a counter is a *)
(* read and a write of self.stats[field].                                  *)
updates_of_process(c) ==
  << [ op |-> "inc", of |-> c.agent, field |-> "total_requests" ],
     [ op |-> "last_used", of |-> c.agent, field |-> "last_used" ],
     [ op |-> "inc", of |-> c.agent,
       field |-> IF c.active = OFFLINE THEN "offline_requests" ELSE "online_requests" ] >>
  \o (IF c.raised
      THEN << [ op |-> "inc", of |-> c.agent, field |-> "failed_responses" ] >>
      ELSE << [ op |-> "inc", of |-> c.agent, field |-> "successful_responses" ],
              [ op |-> "avg", of |-> c.agent, field |-> "avg_response_time_ms" ] >>)

(* The statistics updates of one process_query call, in the order of lines *)
(* 117-143 and 152, r being what the call does.                            *)
updates_of_query(r) ==
  LET RECURSIVE of_calls(_)
      of_calls(invoked) ==
        IF invoked = << >> THEN << >>
        ELSE updates_of_process(Head(invoked)) \o of_calls(Tail(invoked))
  IN
  << [ op |-> "inc", of |-> "orchestrator", field |-> "total_queries" ] >>
  \o of_calls(r.invoked)
  \o (CASE r.path = "selected" ->
             << [ op |-> "inc", of |-> "orchestrator",
                  field |-> IF Get(r.result, "success", FALSE)
                            THEN "successful_responses" ELSE "failed_responses" ],
                [ op |-> "usage_init", of |-> "agent_usage", field |-> r.selected[1][1] ],
                [ op |-> "inc", of |-> "agent_usage", field |-> r.selected[1][1] ] >>
        [] r.path = "except" ->
             << [ op |-> "inc", of |-> "orchestrator", field |-> "failed_responses" ] >>
        [] OTHER -> << >>)

\* the requests served concurrently
RaceRequests == { QEdu, QNone } \X { Ctx([has_internet |-> FALSE]) }

\* a thread takes a request: process_query(q, ctx) on the orchestrator
BeginQuery(t) ==
  /\ threads[t] = Idle
  /\ \E req \in RaceRequests :
       \E env \in EnvsFor(UNION { Uses(a) : a \in MayRun(req[1], OrEmpty(req[2])) }) :
          \E r \in { process_query(req[1], req[2], env, 1, 1) } :
             /\ threads' = [ threads EXCEPT ![t] =
                              [ Idle EXCEPT !.kind = "process_query", !.path = r.path,
                                            !.todo = updates_of_query(r) ] ]
             /\ calls' = count_calls(calls, r.invoked)
             /\ times' = add_elapsed(times, r.invoked)
  /\ ncalls' = ncalls + 1
  /\ last' = Noted("begin")
  /\ UNCHANGED << registry, config, tools, current_mode, stats, ostats >>

\* a thread takes a request: process(q, ctx) on the study assistant
BeginProcess(t) ==
  /\ threads[t] = Idle
  /\ \E req \in RaceRequests :
       \E env \in EnvsFor(Uses("study_assistant")) :
          \E r \in { process(stats, "study_assistant", req[1], req[2], None, env, 1) } :
             /\ threads' = [ threads EXCEPT ![t] =
                              [ Idle EXCEPT !.kind = "process", !.path = "process",
                                            !.todo = updates_of_process(r.call) ] ]
             /\ calls' = count_calls(calls, << r.call >>)
             /\ times' = add_elapsed(times, << r.call >>)
  /\ ncalls' = ncalls + 1
  /\ last' = Noted("begin")
  /\ UNCHANGED << registry, config, tools, current_mode, stats, ostats >>

\* the read of `self.stats[field] += 1`
ReadCounter(t) ==
  LET u == Head(threads[t].todo)
      counter == CASE u.of = "orchestrator" -> ostats[u.field]
                   [] u.of = "agent_usage" -> ostats.agent_usage[u.field]
                   [] OTHER -> stats[u.of][u.field]
  IN /\ threads[t].todo # << >>
     /\ u.op = "inc"
     /\ ~threads[t].reading
     /\ threads' = [ threads EXCEPT ![t] =
                      [ @ EXCEPT !.reading = TRUE, !.read = counter ] ]
     /\ last' = Noted("read")
     /\ UNCHANGED << times, registry, config, tools, current_mode, stats, ostats, calls, ncalls >>

\* the write of `self.stats[field] += 1`: the value read, plus 1
WriteCounter(t) ==
  LET u == Head(threads[t].todo)
      v == threads[t].read + 1
  IN /\ threads[t].todo # << >>
     /\ u.op = "inc"
     /\ threads[t].reading
     /\ threads' = [ threads EXCEPT ![t] = [ @ EXCEPT !.todo = Tail(@), !.reading = FALSE ] ]
     /\ CASE u.of = "orchestrator" ->
               ostats' = [ ostats EXCEPT ![u.field] = v ] /\ UNCHANGED stats
          [] u.of = "agent_usage" ->
               ostats' = [ ostats EXCEPT !.agent_usage = Put(@, u.field, v) ]
                 /\ UNCHANGED stats
          [] OTHER ->
               stats' = [ stats EXCEPT ![u.of][u.field] = v ] /\ UNCHANGED ostats
     /\ last' = Noted("write")
     /\ UNCHANGED << times, registry, config, tools, current_mode, calls, ncalls >>

\* the updates that are no increment: last_used, the running average and
\* the first entry of an agent in agent_usage
Assign(t) ==
  LET u == Head(threads[t].todo)
  IN /\ threads[t].todo # << >>
     /\ u.op # "inc"
     /\ threads' = [ threads EXCEPT ![t] = [ @ EXCEPT !.todo = Tail(@) ] ]
     /\ CASE u.op = "last_used" ->
               stats' = [ stats EXCEPT ![u.of].last_used = "now" ] /\ UNCHANGED ostats
          [] u.op = "avg" ->
               stats' = [ stats EXCEPT ![u.of] = _update_avg_response_time(@, 1) ]
                 /\ UNCHANGED ostats
          [] u.op = "usage_init" ->
               ostats' = [ ostats EXCEPT !.agent_usage =
                             IF Has(@, u.field) THEN @ ELSE Put(@, u.field, 0) ]
                 /\ UNCHANGED stats
     /\ last' = Noted("assign")
     /\ UNCHANGED << times, registry, config, tools, current_mode, calls, ncalls >>

\* ------------------------------------------------------------ specifications
(* Spec: one orchestrator, any query and context of the banks, after any   *)
(* init_tools and set_mode calls.                                          *)
ProcessQuery == ProcessQueryOn(RequestBank, {1}, MaxCalls)

\* set_mode(mode) and set_mode(mode, []): agent_ids omitted or empty
AgentIdsAll == { None, << >> }

SetMode == SetModeOn(AgentIdsAll)

Next == ProcessQuery \/ SetMode \/ InitTools

Spec == Init /\ [][Next]_vars

(* SpecAgent: process() called directly on an agent, with and without a    *)
(* mode argument, after set_mode calls on all agents or on one.            *)
DirectAgents == { "offline_knowledge", "study_assistant", "accessibility" }

DirectQueries == { QEdu }

DirectContexts ==
  { NoContext, Ctx(EmptyDict), Ctx([has_internet |-> FALSE]),
    Ctx([has_internet |-> TRUE]) }

ModeArgs == { None } \cup AgentMode

Process ==
  ProcessOn(DirectAgents, DirectQueries, DirectContexts, ModeArgs, {1}, MaxCalls)

\* set_mode(mode), and set_mode(mode, agent_ids) with a list: empty, of one
\* agent, of agents and an id that is not registered
AgentIdsOne ==
  { None, << >>, << "study_assistant" >>,
    << "accessibility", "no_such_agent", "study_assistant" >> }

SetModeOne == SetModeOn(AgentIdsOne)

NextAgent == Process \/ SetModeOne

SpecAgent == Init /\ [][NextAgent]_vars

(* SpecSeq: sequences of up to MaxSeq calls, process_query and direct      *)
(* process() mixed, on a small bank, with every agent switched to a mode   *)
(* in between.                                                             *)
SeqContexts == { Ctx([has_internet |-> TRUE]) }

SeqRequests == { QEdu, QNone } \X SeqContexts

SeqModes == { None, OFFLINE }

SeqQuery == ProcessQueryOn(SeqRequests, {1}, MaxSeq)

SeqProcess ==
  ProcessOn({ "study_assistant" }, { QEdu }, SeqContexts, SeqModes,
            ElapsedBank, MaxSeq)

SeqSetMode == SetModeOn({ None })

NextSeq == SeqQuery \/ SeqProcess \/ SeqSetMode

SpecSeq == Init /\ [][NextSeq]_vars

(* SpecStats: sequences of up to MaxSeq process_query calls with every     *)
(* agent switched to a mode, the tools distributed and the statistics, the *)
(* agent list and the health report read in between.                       *)
NextStats ==
  SeqQuery \/ SeqSetMode \/ InitTools \/ GetStats \/ ListAgents \/ HealthCheck

SpecStats == Init /\ [][NextStats]_vars

(* SpecHandlers: process() called directly on each agent with the mode     *)
(* given, so that each process_offline and process_online runs, with and   *)
(* without the API keys and the tools, on contexts that choose each        *)
(* operation of the handlers.                                              *)
HandlerQueries == { QEdu, QNone }

HandlerContexts ==
  { Ctx(EmptyDict),
    Ctx([operation |-> "evaluate_answer", answer |-> "4", correct_answer |-> "4"]),
    Ctx([operation |-> "stt", subject |-> "History"]),
    Ctx([operation |-> "generate_quiz", subject |-> "Mathematics",
         difficulty |-> "medium", count |-> 2]),
    Ctx([operation |-> "generate_quiz", subject |-> "Science",
         difficulty |-> "hard", count |-> 0]),
    Ctx([subject |-> "Science", difficulty |-> "expert", count |-> 0 - 1]) }

HandlerModes == { OFFLINE, ONLINE }

HandlerProcess ==
  ProcessOn(Agents, HandlerQueries, HandlerContexts, HandlerModes, {1}, MaxCalls)

NextHandlers == HandlerProcess \/ InitTools

SpecHandlers == Init /\ [][NextHandlers]_vars

(* SpecScore: can_handle and _select_agents called directly, before and    *)
(* after process_query calls.                                              *)
ScoreQuery == ProcessQueryOn({ QEdu } \X SeqContexts, {1}, MaxCalls)

NextScore == CanHandle \/ SelectAgents \/ ScoreQuery

SpecScore == Init /\ [][NextScore]_vars

\* two threads serve one request each, their statistics updates interleaved
\* read by read and write by write
NextRace ==
  \E t \in Threads :
    BeginQuery(t) \/ BeginProcess(t) \/ ReadCounter(t) \/ WriteCounter(t) \/ Assign(t)

SpecRace == Init /\ [][NextRace]_vars

\* ------------------------------------------------------------------ claims
(* C1: for every query and context (an absent context, a registry in which *)
(* no agent is confident and a handler that raises included),              *)
(* process_query returns an envelope with a boolean `success` and lets no  *)
(* exception reach the caller.                                             *)
C1_EnvelopeAlwaysReturned ==
  last.op = "process_query" =>
    /\ ~IsExc(last.result)
    /\ "success" \in DOMAIN last.result
    /\ last.result["success"] \in BOOLEAN

\* the context is absent, no agent is confident and the fallback agent's
\* handler raises
C1_Witness ==
  /\ last.op = "process_query"
  /\ last.context.isNone
  /\ last.path = "fallback"
  /\ last.invoked[1].raised
  /\ last.result["success"] = FALSE

(* C2: _select_agents returns exactly the agents that score above 0, by    *)
(* descending score and, among equal scores, ascending priority ordinal,   *)
(* cut to the first 3; an agent that scores 0 is never in the result.      *)
C2_SelectedAreTopThree ==
  (last.op = "process_query" /\ last.path # "except") =>
    LET q == last.query
        d == OrEmpty(last.context)
        sel == last.selected
        positive == { a \in Agents : can_handle(a, q, d) > 0 }
        chosen == { sel[i][1] : i \in 1..Len(sel) }
        Ahead(a, b) ==
          \/ can_handle(a, q, d) > can_handle(b, q, d)
          \/ /\ can_handle(a, q, d) = can_handle(b, q, d)
             /\ priority(a) < priority(b)
    IN /\ Len(sel) = (IF Cardinality(positive) < 3 THEN Cardinality(positive) ELSE 3)
       /\ \A i \in 1..Len(sel) :
            sel[i][1] \in positive /\ sel[i][2] = can_handle(sel[i][1], q, d)
       /\ \A i, j \in 1..Len(sel) :
            i < j => (sel[i][1] # sel[j][1] /\ ~Ahead(sel[j][1], sel[i][1]))
       /\ \A a \in positive \ chosen : \A b \in chosen : ~Ahead(a, b)

\* more than 3 agents score above 0, and the first two are tied: the one of
\* lower priority ordinal, registered last, is in front
C2_Witness ==
  /\ last.op = "process_query"
  /\ Len(last.selected) = 3
  /\ last.selected[1] = << "accessibility", 95 >>
  /\ last.selected[2] = << "study_assistant", 95 >>
  /\ Cardinality({ a \in Agents :
                     can_handle(a, last.query, OrEmpty(last.context)) > 0 }) > 3

C4_EffectiveMode ==
  last.op = "process" =>
    LET call == last.invoked[1]
        chosen == IF call.override # None THEN call.override ELSE call.current
        has_internet ==
          /\ ~last.context.isNone
          /\ "has_internet" \in DOMAIN last.context.d
          /\ last.context.d["has_internet"] = TRUE
        effective ==
          IF chosen = AUTO THEN (IF has_internet THEN ONLINE ELSE OFFLINE) ELSE chosen
    IN /\ call.active = effective
       /\ (call.path = "process_offline") <=> (effective = OFFLINE)
       /\ (call.path = "process_online") <=> (effective # OFFLINE)

\* an AUTO argument on an agent whose current_mode is OFFLINE, with
\* has_internet true: process_online runs
C4_Witness ==
  /\ last.op = "process"
  /\ last.invoked[1].override = AUTO
  /\ last.invoked[1].current = OFFLINE
  /\ last.context = Ctx([has_internet |-> TRUE])
  /\ last.invoked[1].path = "process_online"

(* C5: on the non-fallback path process_query runs exactly one primary     *)
(* agent, the first entry of _select_agents, through process() with the    *)
(* caller's context; the agent_id of the envelope returned is that         *)
(* agent's, also after the enhancement step.                               *)
C5_OnePrimary ==
  (last.op = "process_query" /\ last.path = "selected") =>
    /\ Len(last.invoked) >= 1
    /\ last.invoked[1].agent = last.selected[1][1]
    /\ last.invoked[1].context = Ctx(OrEmpty(last.context))
    /\ last.invoked[1].override = None
    /\ \A i \in 2..Len(last.invoked) : last.invoked[i].agent # last.selected[1][1]
    /\ last.result["agent_id"] = last.selected[1][1]

\* the enhancement step ran a secondary agent and attached its videos
C5_Witness ==
  /\ last.op = "process_query"
  /\ last.path = "selected"
  /\ Len(last.invoked) = 2
  /\ "enhancements" \in DOMAIN last.result
  /\ "recommended_videos" \in DOMAIN last.result["enhancements"]
  /\ last.result["agent_id"] = last.selected[1][1]

(* C6: the enhancement step changes no field of a successful primary       *)
(* response except that it adds `enhancements`: whatever the secondary     *)
(* agents do, `success` stays true and `answer` and every other field keep *)
(* their values.  (process_query itself then adds total_response_time_ms.) *)
C6_EnhanceOnlyAdds ==
  ( /\ last.op = "process_query"
    /\ last.path = "selected"
    /\ Get(last.invoked[1].response, "success", FALSE) ) =>
    LET p == last.invoked[1].response
        r == last.result
    IN /\ \A k \in DOMAIN p : k \in DOMAIN r /\ r[k] = p[k]
       /\ (DOMAIN r \ DOMAIN p) \subseteq { "enhancements", "total_response_time_ms" }
       /\ r["success"] = TRUE

\* the secondary agent content_discovery raised after a primary success
C6_Witness ==
  /\ last.op = "process_query"
  /\ last.path = "selected"
  /\ Len(last.invoked) = 2
  /\ last.invoked[1].response["success"] = TRUE
  /\ "answer" \in DOMAIN last.invoked[1].response
  /\ last.invoked[2].raised
  /\ "enhancements" \notin DOMAIN last.result

C9_RequestCounters ==
  /\ \A a \in Agents :
       /\ stats[a].total_requests = calls[a]
       /\ stats[a].successful_responses + stats[a].failed_responses
            = stats[a].total_requests
  /\ \A i \in 1..Len(last.invoked) :
       LET c == last.invoked[i]
           s == stats[c.agent]
       IN /\ s.total_requests = c.before.total_requests + 1
          /\ s.failed_responses =
               c.before.failed_responses + (IF c.raised THEN 1 ELSE 0)
          /\ s.successful_responses =
               c.before.successful_responses + (IF c.raised THEN 0 ELSE 1)

\* an agent has served MaxSeq calls, some returning and some raising
C9_Witness ==
  \E a \in Agents :
    /\ stats[a].total_requests = MaxSeq
    /\ stats[a].failed_responses >= 1
    /\ stats[a].successful_responses >= 1

(* C10: when the chosen handler raises, process() does not propagate: it   *)
(* adds 1 to failed_responses, leaves successful_responses and             *)
(* avg_response_time_ms as they were and returns an envelope with          *)
(* success = false whose `error` is the exception's message.               *)
C10_FailureRecovered ==
  \A i \in 1..Len(last.invoked) :
    LET c == last.invoked[i]
        s == stats[c.agent]
    IN c.raised =>
         /\ s.failed_responses = c.before.failed_responses + 1
         /\ s.successful_responses = c.before.successful_responses
         /\ s.avg_response_time_ms = c.before.avg_response_time_ms
         /\ ~IsExc(c.response)
         /\ c.response["success"] = FALSE
         /\ "error" \in DOMAIN c.response
         /\ c.response["error"] = c.exception

\* a handler raises on an agent that has answered before, its average
\* response time above 0
C10_Witness ==
  \E i \in 1..Len(last.invoked) :
    /\ last.invoked[i].raised
    /\ last.invoked[i].before.successful_responses >= 1
    /\ last.invoked[i].before.avg_response_time_ms.num > 0
    /\ last.op = "process"

\* the call's process_online found its credential missing, or made its
\* remote call (Gemini generate_content) and the call raised
C11_RemoteFailed(c) ==
  \/ /\ c.agent = "study_assistant"
     /\ (~config.gemini_api_key \/ (last.query.isStr /\ c.env.gemini = "raise"))
  \/ /\ c.agent = "assessment"
     /\ Get(c.context.d, "operation", "generate_quiz")
          \in { "generate_quiz", "evaluate_answer" }
     /\ (~config.gemini_api_key \/ c.env.gemini = "raise")
  \/ /\ c.agent = "content_discovery"
     /\ ~config.youtube_api_key

\* r is what process_offline gave (off), StudyAssistantAgent's `note` apart
C11_SameAsOffline(r, off) ==
  IF IsExc(off) THEN r = off
  ELSE /\ ~IsExc(r)
       /\ \A k \in DOMAIN off : k \in DOMAIN r /\ r[k] = off[k]
       /\ (DOMAIN r \ DOMAIN off) \subseteq { "note" }

(* C11: a process_online that runs without its remote credential (no       *)
(* Gemini model, no YouTube API key), or whose remote call raises, does    *)
(* not surface that error: what it returns is what process_offline         *)
(* returns for the same query and context (StudyAssistantAgent marks the   *)
(* dict with a `note` after a failed Gemini call).                         *)
C11_OnlineFallsBackToOffline ==
  registry = "default" =>
    \A i \in 1..Len(last.invoked) :
      LET c == last.invoked[i]
      IN (c.path = "process_online" /\ C11_RemoteFailed(c)) =>
           C11_SameAsOffline(c.returned,
                         process_offline(c.agent, last.query, c.context, c.env))

\* the Gemini call of StudyAssistantAgent raised and the cached answer of
\* process_offline came back
C11_Witness ==
  /\ registry = "default"
  /\ last.op = "process"
  /\ last.agent = "study_assistant"
  /\ last.invoked[1].path = "process_online"
  /\ config.gemini_api_key
  /\ last.invoked[1].env.gemini = "raise"
  /\ ~last.invoked[1].raised
  /\ last.invoked[1].returned["success"] = TRUE
  /\ last.invoked[1].returned["source"] = "cached_knowledge"
  /\ "note" \in DOMAIN last.invoked[1].returned

(* C12: every envelope process_query returns carries agent_id, agent_name, *)
(* mode, timestamp and response_time_ms: when the handler returned, when   *)
(* the handler raised, and when the outermost except branch answered.      *)
C12_EnvelopeFieldsInjected ==
  last.op = "process_query" =>
    { "agent_id", "agent_name", "mode", "timestamp", "response_time_ms" }
      \subseteq DOMAIN last.result

(* C13: _select_agents is deterministic: the list it returns is fixed by   *)
(* the registry, the query and the context, being in the total order       *)
(* "higher score, then lower priority ordinal, then earlier in the         *)
(* registry's insertion order" - agents of equal score and equal priority  *)
(* appear in insertion order, and one left out comes after every one       *)
(* chosen.                                                                 *)
C13_TiesInInsertionOrder ==
  (last.op = "process_query" /\ last.path # "except") =>
    LET q == last.query
        d == OrEmpty(last.context)
        sel == last.selected
        pos(a) == CHOOSE i \in 1..Len(AgentIds) : AgentIds[i] = a
        Before(a, b) ==
          \/ can_handle(a, q, d) > can_handle(b, q, d)
          \/ /\ can_handle(a, q, d) = can_handle(b, q, d)
             /\ \/ priority(a) < priority(b)
                \/ priority(a) = priority(b) /\ pos(a) < pos(b)
        chosen == { sel[i][1] : i \in 1..Len(sel) }
    IN /\ \A i, j \in 1..Len(sel) : i < j => Before(sel[i][1], sel[j][1])
       /\ \A a \in { x \in Agents : can_handle(x, q, d) > 0 } \ chosen :
            \A b \in chosen : Before(b, a)

\* voice_interface and language_support, both HIGH, both score 1.0: the
\* one registered first is in front
C13_Witness ==
  /\ last.op = "process_query"
  /\ Len(last.selected) = 3
  /\ last.selected[1] = << "voice_interface", 100 >>
  /\ last.selected[2] = << "language_support", 100 >>
  /\ priority("voice_interface") = priority("language_support")

(* C14: total_queries, successful_responses, failed_responses and every    *)
(* agent_usage entry of the orchestrator never decrease, whatever          *)
(* process_query, set_mode, init_tools, get_stats, list_agents and         *)
(* health_check calls are made.                                            *)
C14_CountersNeverDecrease ==
  [][ /\ ostats'.total_queries >= ostats.total_queries
      /\ ostats'.successful_responses >= ostats.successful_responses
      /\ ostats'.failed_responses >= ostats.failed_responses
      /\ \A a \in DOMAIN ostats.agent_usage :
            /\ a \in DOMAIN ostats'.agent_usage
            /\ ostats'.agent_usage[a] >= ostats.agent_usage[a] ]_vars

\* a query failed on an orchestrator that had successes and usage counted
C14_Witness ==
  /\ last.op = "process_query"
  /\ last.before.successful_responses >= 1
  /\ DOMAIN last.before.agent_usage # {}
  /\ ostats.failed_responses = last.before.failed_responses + 1
  /\ ostats.successful_responses = last.before.successful_responses

\* process_query("What is photosynthesis?", {has_internet: false}) was
\* answered on the default registry, the knowledge base initialised and its
\* search finding no cached Q&A, study_assistant not switched to ONLINE
C15_Scenario ==
  /\ registry = "default"
  /\ last.op = "process_query"
  /\ last.query = QEdu
  /\ last.context = Ctx([has_internet |-> FALSE])
  /\ tools.knowledge_base
  /\ last.invoked[1].env.kb = "miss"
  /\ last.invoked[1].current # ONLINE

(* C15, as claimed: in that scenario the envelope has success = false and  *)
(* requires_internet = true.                                               *)
C15_RequiresInternet ==
  C15_Scenario =>
    /\ last.result["success"] = FALSE
    /\ "requires_internet" \in DOMAIN last.result
    /\ last.result["requires_internet"] = TRUE

(* C15, amended: in that scenario the primary agent is study_assistant and *)
(* the envelope is its offline guidance: success = false and               *)
(* available_offline = false, with no requires_internet field.             *)
C15_OfflineGuidance ==
  C15_Scenario =>
    /\ last.selected[1][1] = "study_assistant"
    /\ last.result["agent_id"] = "study_assistant"
    /\ last.result["success"] = FALSE
    /\ "available_offline" \in DOMAIN last.result
    /\ last.result["available_offline"] = FALSE
    /\ "requires_internet" \notin DOMAIN last.result

\* the scenario, with offline_knowledge (0.7) ranked second
C15_Witness ==
  /\ C15_Scenario
  /\ last.selected[2] = << "offline_knowledge", 70 >>
  /\ last.result["mode"] = OFFLINE

(* C16: with the default registry and an initialised knowledge base in    *)
(* which a FAQ matches, process_query("How do I use this app?",            *)
(* {has_internet: false}) selects offline_knowledge as the primary agent   *)
(* and returns an envelope with agent_id = offline_knowledge,              *)
(* mode = "offline" and success = true (offline_knowledge being in a mode  *)
(* other than ONLINE, as it is unless set_mode switched it).               *)
C16_AppQueryAnsweredOffline ==
  ( /\ registry = "default"
    /\ last.op = "process_query"
    /\ last.query = QApp
    /\ last.context = Ctx([has_internet |-> FALSE])
    /\ tools.knowledge_base
    /\ last.invoked[1].env.kb = "hit"
    /\ last.invoked[1].current # ONLINE ) =>
    /\ last.selected[1][1] = "offline_knowledge"
    /\ last.invoked[1].agent = "offline_knowledge"
    /\ last.result["agent_id"] = "offline_knowledge"
    /\ last.result["mode"] = "offline"
    /\ last.result["success"] = TRUE

\* the scenario on a fresh orchestrator: offline_knowledge in its default
\* mode, the FAQ answer returned
C16_Witness ==
  /\ registry = "default"
  /\ last.op = "process_query"
  /\ last.query = QApp
  /\ last.context = Ctx([has_internet |-> FALSE])
  /\ tools.knowledge_base
  /\ last.invoked[1].current = default_mode("offline_knowledge")
  /\ last.result["source"] = "offline_faq"
  /\ last.result["mode"] = "offline"

(* C17: every envelope with success = true that a registered agent's      *)
(* process() returns, and so every such envelope of process_query, has at  *)
(* least one of the fields `answer` and `message`.                         *)
C17_SuccessHasAnswerOrMessage ==
  /\ \A i \in 1..Len(last.invoked) :
       Get(last.invoked[i].response, "success", FALSE) =>
         DOMAIN last.invoked[i].response \cap { "answer", "message" } # {}
  /\ (last.op = "process_query" /\ Get(last.result, "success", FALSE)) =>
       DOMAIN last.result \cap { "answer", "message" } # {}

(* C18: can_handle and _select_agents have no side effects: a call leaves  *)
(* every agent's stats and current_mode, the orchestrator's stats and the  *)
(* context bag as they were.                                               *)
C18_ScoringHasNoSideEffects ==
  [][ last'.op \in { "can_handle", "_select_agents" } =>
        /\ stats' = stats
        /\ current_mode' = current_mode
        /\ ostats' = ostats
        /\ last'.result.context = last'.context ]_vars

\* _select_agents ranked a query on an orchestrator that has answered one
C18_Witness ==
  /\ last.op = "_select_agents"
  /\ Len(last.selected) = 3
  /\ ostats.total_queries = 1
  /\ stats["study_assistant"].total_requests = 1

(* C19: for each of the 8 registered agents, every query and every         *)
(* context, the value can_handle returns is in [0.0, 1.0]: never negative, *)
(* never above 1 (scores are the source's times 100).                      *)
C19_ConfidenceInUnitInterval ==
  (last.op = "can_handle" /\ ~last.result.raised) =>
    /\ last.result.confidence >= 0
    /\ last.result.confidence <= 100

\* a voice keyword in the query and the voice flag in the context: the
\* score is 1.0, not more
C19_Witness ==
  /\ last.op = "can_handle"
  /\ registry = "default"
  /\ last.agent = "voice_interface"
  /\ last.query = QAloud
  /\ ~last.context.isNone
  /\ last.result.confidence = 100

(* C20: get_stats never divides by zero: it reports success_rate = 0 while *)
(* total_queries is 0, and in every reachable state the success_rate it    *)
(* reports is 100 * successful_responses / total_queries and lies between  *)
(* 0 and 100.                                                              *)
C20_SuccessRate ==
  last.op = "get_stats" =>
    LET r == last.result
        rate == r.success_rate
    IN /\ r.total_queries = ostats.total_queries
       /\ r.successful_responses = ostats.successful_responses
       /\ rate.den > 0
       /\ ostats.total_queries = 0 => rate.num = 0
       /\ ostats.total_queries > 0 =>
            rate.num * ostats.total_queries
              = 100 * ostats.successful_responses * rate.den
       /\ 0 <= rate.num
       /\ rate.num <= 100 * rate.den

\* get_stats after MaxSeq queries of which one succeeded
C20_Witness ==
  /\ last.op = "get_stats"
  /\ ostats.total_queries = MaxSeq
  /\ ostats.successful_responses = 1
  /\ last.result.success_rate = Rat(100, MaxSeq)

\* the process() call was an offline generate_quiz on the assessment agent,
\* for a subject of the template bank
C21_OfflineQuiz(c) ==
  /\ registry = "default"
  /\ c.agent = "assessment"
  /\ c.path = "process_offline"
  /\ Get(OrEmpty(c.context), "operation", "generate_quiz") = "generate_quiz"
  /\ Get(OrEmpty(c.context), "subject", "Mathematics") \in quiz_templates

(* C21: the offline generate_quiz for a subject and difficulty of the      *)
(* template bank and a count that is not negative returns                  *)
(* k = min(count, bank size) questions, pairwise distinct, all from that   *)
(* bank, with ids 1..k in order and question_count = k; for Mathematics,   *)
(* medium, count 2 it returns 2 questions with ids 1 and 2.                *)
C21_QuizFromBank ==
  \A n \in 1..Len(last.invoked) :
    LET c == last.invoked[n]
        d == OrEmpty(c.context)
        subject == Get(d, "subject", "Mathematics")
        difficulty == Get(d, "difficulty", "medium")
        count == Get(d, "count", 5)
        bank == { << subject, difficulty, i >> : i \in 1..3 }
        k == IF count < Cardinality(bank) THEN count ELSE Cardinality(bank)
        r == c.returned
    IN (C21_OfflineQuiz(c) /\ difficulty \in {"easy", "medium", "hard"} /\ count >= 0) =>
         /\ ~c.raised
         /\ r["success"] = TRUE
         /\ r["question_count"] = k
         /\ Len(r["questions"]) = k
         /\ \A i \in 1..k :
              /\ r["questions"][i].id = i
              /\ r["questions"][i].question \in bank
         /\ \A i, j \in 1..k :
              i # j => r["questions"][i].question # r["questions"][j].question
         /\ (subject = "Mathematics" /\ difficulty = "medium" /\ count = 2) =>
              /\ Len(r["questions"]) = 2
              /\ r["questions"][1].id = 1
              /\ r["questions"][2].id = 2

\* Mathematics, medium, count 2, the sample not in the order of the bank
C21_Witness ==
  /\ last.op = "process"
  /\ C21_OfflineQuiz(last.invoked[1])
  /\ Get(OrEmpty(last.context), "count", 5) = 2
  /\ ~last.invoked[1].raised
  /\ last.invoked[1].returned["questions"][1].question = << "Mathematics", "medium", 3 >>
  /\ last.invoked[1].returned["questions"][2].question = << "Mathematics", "medium", 1 >>
  /\ last.result["question_count"] = 2

(* C22: when the primary agent's envelope has success = false, no other   *)
(* agent is invoked (no secondary, no next candidate, no fallback), no     *)
(* `enhancements` or `is_fallback` field is added and the envelope         *)
(* returned is the primary's failure envelope (with the total time that    *)
(* process_query stamps on every envelope of this path).                   *)
C22_PrimaryFailureIsFinal ==
  (/\ last.op = "process_query"
   /\ last.path = "selected"
   /\ last.invoked[1].response["success"] = FALSE) =>
    LET primary == last.invoked[1]
    IN /\ Len(last.invoked) = 1
       /\ primary.agent = last.selected[1][1]
       /\ "enhancements" \notin DOMAIN last.result
       /\ "is_fallback" \notin DOMAIN last.result
       /\ \A f \in DOMAIN primary.response :
            f \in DOMAIN last.result /\ last.result[f] = primary.response[f]
       /\ DOMAIN last.result \ DOMAIN primary.response \subseteq {"total_response_time_ms"}
       /\ last.result["success"] = FALSE

\* the primary failed while content_discovery was ranked behind it with a
\* confidence above 0.5 and the cache manager was there to serve it
C22_Witness ==
  /\ last.op = "process_query"
  /\ last.path = "selected"
  /\ last.invoked[1].response["success"] = FALSE
  /\ Len(last.selected) > 1
  /\ last.selected[2][1] = "content_discovery"
  /\ last.selected[2][2] > 50
  /\ tools.cache_manager

\* the secondary agent that contributes the key k of `enhancements`
C23_Contributor(k) ==
  CASE k = "recommended_videos" -> "content_discovery"
    [] k = "study_path_available" -> "study_path_planner"
    [] k = "practice_available" -> "assessment"
    [] OTHER -> None

(* C23: in the enhancement step at most the first 2 secondary candidates   *)
(* are considered, and `enhancements` has a key contributed by a secondary *)
(* agent only if that agent had a confidence above 0.5, had its process()  *)
(* invoked during the step, and that call neither raised nor returned      *)
(* success false; when no secondary contributes, there is no               *)
(* `enhancements` field.                                                   *)
C23_EnhancementsFromInvokedAgents ==
  (last.op = "process_query" /\ last.path = "selected") =>
    LET secondary == First2(Tail(last.selected))
        during == SubSeq(last.invoked, 2, Len(last.invoked))
    IN /\ \A n \in 1..Len(during) :
            \E i \in 1..Len(secondary) : secondary[i][1] = during[n].agent
       /\ "enhancements" \in DOMAIN last.result =>
            /\ DOMAIN last.result["enhancements"] # {}
            /\ \A k \in DOMAIN last.result["enhancements"] :
                 /\ \E i \in 1..Len(secondary) :
                      /\ secondary[i][1] = C23_Contributor(k)
                      /\ secondary[i][2] > 50
                 /\ \E n \in 1..Len(during) :
                      /\ during[n].agent = C23_Contributor(k)
                      /\ ~during[n].raised
                      /\ during[n].response["success"] = TRUE

\* both requests have made all their statistics updates
C24_Completed == \A t \in Threads : threads[t].kind # None /\ threads[t].todo = << >>

(* C24: the counter updates of concurrent requests behave as a critical   *)
(* section: whatever the interleaving of their reads and writes, no        *)
(* update is lost.  When the two requests have completed, total_queries    *)
(* has grown by 1 for each process_query, every agent's total_requests by  *)
(* 1 for each process() call made on it, and successful_responses +        *)
(* failed_responses equals the total on every agent, and on the            *)
(* orchestrator the number of queries that an agent was selected for or    *)
(* that raised (the fallback branch counts no outcome).                    *)
C24_NoLostUpdate ==
  C24_Completed =>
    /\ ostats.total_queries
         = Cardinality({ t \in Threads : threads[t].kind = "process_query" })
    /\ ostats.successful_responses + ostats.failed_responses
         = Cardinality({ t \in Threads : threads[t].path \in { "selected", "except" } })
    /\ \A a \in Agents :
         /\ stats[a].total_requests = calls[a]
         /\ stats[a].successful_responses + stats[a].failed_responses
              = stats[a].total_requests

(* C25: after each process() call that returns normally,                   *)
(* avg_response_time_ms = (previous avg * (n - 1) + elapsed) / n with n    *)
(* the successful_responses count after the increment, the first such      *)
(* call setting it to its own elapsed time; hence after n normal returns   *)
(* the average is the arithmetic mean of their n elapsed times (the sum    *)
(* of the times over n).  A raising call leaves the average unchanged.     *)
C25_RunningAverage ==
  /\ \A a \in Agents :
       LET avg == stats[a].avg_response_time_ms
           n == stats[a].successful_responses
       IN IF n = 0 THEN avg.num = 0
          ELSE avg.num * n = times[a] * avg.den
  /\ \A i \in 1..Len(last.invoked) :
       LET c == last.invoked[i]
           s == stats[c.agent]
           n == s.successful_responses
           avg == s.avg_response_time_ms
           prev == c.before.avg_response_time_ms
       IN IF c.raised THEN avg = prev
          ELSE /\ n = c.before.successful_responses + 1
               /\ n = 1 => avg = Rat(c.elapsed, 1)
               /\ avg.num * prev.den * n
                    = (prev.num * (n - 1) + c.elapsed * prev.den) * avg.den

\* an agent has returned normally several times, in times whose mean is no
\* whole number, and has raised once
C25_Witness ==
  \E a \in Agents :
    /\ stats[a].successful_responses >= 2
    /\ stats[a].failed_responses >= 1
    /\ stats[a].avg_response_time_ms.den > 1
    /\ last.op = "process"

\* the agents of the default registry that score above 0 on every query
C26_AlwaysConfident ==
  { "offline_knowledge", "study_assistant", "assessment", "content_discovery",
    "study_path_planner" }

(* C26: with the default registry of 8 agents, _select_agents returns      *)
(* exactly 3 agents for every query text and every context, because        *)
(* offline_knowledge, study_assistant, assessment, content_discovery and   *)
(* study_path_planner each score above 0 on every input; so process_query  *)
(* never takes the fallback branch and no response carries is_fallback.    *)
C26_DefaultRegistrySelectsThree ==
  (last.op = "process_query" /\ registry = "default") =>
    /\ last.path # "fallback"
    /\ "is_fallback" \notin DOMAIN last.result
    /\ last.query.isStr =>
         /\ last.path = "selected"
         /\ Len(last.selected) = 3
         /\ \A a \in C26_AlwaysConfident :
              can_handle(a, last.query, OrEmpty(last.context)) > 0

\* the default registry answers a query that matches no keyword of any agent
C26_Witness ==
  /\ last.op = "process_query"
  /\ registry = "default"
  /\ last.query = QGibberish
  /\ Len(last.selected) = 3
  /\ \A a \in Agents \ C26_AlwaysConfident :
       can_handle(a, last.query, OrEmpty(last.context)) = 0

(* C27: the `mode` of every envelope BaseAgent.process returns is          *)
(* "offline" or "online", never "auto"; it is the effective mode resolved  *)
(* for the call, which is also the sub-counter (offline_requests or        *)
(* online_requests) the call incremented, and it replaces any `mode` the   *)
(* handler put in its dict, also when process_online fell back to          *)
(* process_offline.                                                        *)
C27_ModeIsEffectiveMode ==
  \A i \in 1..Len(last.invoked) :
    LET c == last.invoked[i]
        s == stats[c.agent]
    IN /\ c.response["mode"] \in { "offline", "online" }
       /\ c.response["mode"] = c.active
       /\ c.active = active_mode(c.agent, c.context, c.override)
       /\ s.offline_requests =
            c.before.offline_requests + (IF c.response["mode"] = "offline" THEN 1 ELSE 0)
       /\ s.online_requests =
            c.before.online_requests + (IF c.response["mode"] = "online" THEN 1 ELSE 0)

\* the agent's mode is AUTO, the call resolved to ONLINE, process_online
\* fell back to process_offline and the handler's dict said "offline"
C27_Witness ==
  \E i \in 1..Len(last.invoked) :
    LET c == last.invoked[i]
    IN /\ c.current = AUTO
       /\ c.override = None
       /\ c.path = "process_online"
       /\ ~c.raised
       /\ Get(c.returned, "mode", None) = "offline"
       /\ c.response["mode"] = "online"

(* C28: process() and process_query never change an agent's current_mode:  *)
(* the resolution of AUTO and a mode override apply to the call only, and  *)
(* current_mode changes only through set_mode.  (default_mode is assigned  *)
(* by the constructor alone and is the operator default_mode here.)        *)
C28_ModeChangesOnlyBySetMode ==
  [][ /\ last'.op \in { "process", "process_query" } => current_mode' = current_mode
      /\ current_mode' # current_mode => last'.op = "set_mode" ]_vars

\* a call under a mode override, on an agent whose mode is AUTO, resolved
\* to another mode than the agent's and left the agent in AUTO
C28_Witness ==
  /\ last.op = "process"
  /\ last.invoked[1].override = OFFLINE
  /\ last.invoked[1].current = AUTO
  /\ last.invoked[1].active = OFFLINE
  /\ current_mode[last.invoked[1].agent] = AUTO

\* the agents of the registry that the list agent_ids names
C29_Named(agent_ids) == { a \in Agents : \E i \in 1..Len(agent_ids) : agent_ids[i] = a }

(* C29: set_mode(mode, agent_ids) with a list of any length, the empty     *)
(* list included, sets current_mode to mode for exactly the registered     *)
(* agents the list names, ignores unknown ids, leaves the other agents'    *)
(* current_mode and all statistics unchanged; it sets all agents only      *)
(* when agent_ids is omitted.                                              *)
C29_SetModeNamedAgentsOnly ==
  [][ last'.op = "set_mode" =>
        /\ stats' = stats
        /\ ostats' = ostats
        /\ \A a \in Agents :
             current_mode'[a] =
               IF last'.result.omitted THEN last'.mode
               ELSE IF a \in C29_Named(last'.result.agent_ids) THEN last'.mode
               ELSE current_mode[a] ]_vars

(* C30: for every agent, after any sequence of process() calls,            *)
(* offline_requests + online_requests = total_requests: each call adds 1   *)
(* to exactly one of the two, the one of the call's effective mode,        *)
(* whether the handler returns or raises.                                  *)
C30_ModeCountersSumToTotal ==
  /\ \A a \in Agents :
       /\ stats[a].offline_requests + stats[a].online_requests = stats[a].total_requests
       /\ stats[a].total_requests = calls[a]
  /\ \A i \in 1..Len(last.invoked) :
       LET c == last.invoked[i]
           s == stats[c.agent]
           offline == s.offline_requests - c.before.offline_requests
           online == s.online_requests - c.before.online_requests
       IN /\ offline + online = 1
          /\ offline = 1 <=> c.active = OFFLINE
          /\ online = 1 <=> c.active = ONLINE

\* an agent has served calls in both modes and its last call raised
C30_Witness ==
  \E i \in 1..Len(last.invoked) :
    LET c == last.invoked[i]
    IN /\ c.raised
       /\ stats[c.agent].offline_requests >= 1
       /\ stats[c.agent].online_requests >= 1
       /\ stats[c.agent].total_requests = MaxSeq

====
